---- MODULE Spec2Model ----
(***************************************************************************)
(* Model of webapp/icons/generate-pwa-icons.py: the import guard, the      *)
(* drawing pipeline of draw_calendar_icon(size), generate_icon(size) and   *)
(* the __main__ block with its exception handler.                          *)
(*                                                                         *)
(* A raster is kept as what determines it: the gradient rows drawn by the  *)
(* scanline loop, the rounded-rectangle mask, and the list of shapes drawn *)
(* afterwards in painter's order.  PixelOf evaluates a pixel from these.   *)
(*                                                                         *)
(* Python floats: every int(n * c) of the script is modelled by FloatInt,  *)
(* the truncation of the IEEE-754 double product; for the operands that    *)
(* occur it equals the exact quotient except for the listed operands of    *)
(* 0.7 (see Misrounded07).                                                 *)
(***************************************************************************)
EXTENDS Integers, Sequences, FiniteSets

VARIABLES stdoutEncodes, pc, pil, idx, size, y, i, rows, mask, loc, shapes, files, out, exc, exitCode

vars == <<stdoutEncodes, pc, pil, idx, size, y, i, rows, mask, loc, shapes, files, out, exc, exitCode>>

\* Largest size argument explored for draw_calendar_icon on its own.
MaxSize == 200

\* ---------------------------------------------------------------- constants
Size192 == 192
Size512 == 512
\* Mutant: the two calls of the try block in the other order.
SizesSwapped == <<Size512, Size192>>
Sizes == <<Size192, Size512>>

ColorA == <<102, 110, 234>>
ColorB == <<118, 75, 162>>
White == <<255, 255, 255>>
BodyFill == <<242, 242, 242>>

FileNames == {"icon-192.png", "icon-512.png"}

\* Mutant: a file name that ignores the size.
FileNameFixed(s) == "icon-512.png"

\* f"icon-{size}.png"
FileName(s) == IF s = Size192 THEN "icon-192.png" ELSE "icon-512.png"

\* ------------------------------------------------------------- arithmetic
\* int(): truncation toward zero of the rational a/b, b > 0.
TruncDiv(a, b) == IF a >= 0 THEN a \div b ELSE -((-a) \div b)

\* Operands n < 1290 for which the double product n * 0.7 falls just below
\* the integer 7n/10, so that int() yields one less than the exact quotient.
Misrounded07 ==
  {90, 170, 180, 330, 340, 350, 360, 650, 660, 670, 680, 690, 700, 710, 720, 730}

\* int(n * c) for the double c nearest to p/100, n >= 0.
FloatInt(n, p) ==
  IF p = 70 /\ n \in Misrounded07 THEN (n * p) \div 100 - 1 ELSE (n * p) \div 100

\* ------------------------------------------------------------ the gradient
\* Mutant: round() in place of int().
ChannelRounded(a, b, yy, s) == (2 * (a * s + (b - a) * yy) + s) \div (2 * s)

\* int(a + (b - a) * (y / size)) for one channel
Channel(a, b, yy, s) == TruncDiv(a * s + (b - a) * yy, s)

GradientColor(yy, s) ==
  << Channel(ColorA[1], ColorB[1], yy, s),
     Channel(ColorA[2], ColorB[2], yy, s),
     Channel(ColorA[3], ColorB[3], yy, s) >>

\* ---------------------------------------------------------------- geometry
\* Mutants: no corner rounding; round() in place of int(); no padding; the
\* content box shrunk by one margin only; dots started at the body's edge.
BgRadiusZero(s) == 0
BgRadiusRounded(s) == (s * 15 + 50) \div 100
PaddingNone(content_size) == 0
ContentSizeOneMargin(s, safe_zone) == s - safe_zone
StartXOffsetNone(dot_spacing) == 0

BgRadius(s) == FloatInt(s, 15)
SafeZone(s) == FloatInt(s, 20)
ContentSize(s, safe_zone) == s - (safe_zone * 2)
Padding(content_size) == FloatInt(content_size, 20)
CalWidth(content_size, padding) == content_size - (padding * 2)
CalHeight(cal_width) == FloatInt(cal_width, 90)
CalYOffset(content_size) == FloatInt(content_size, 15)
CalRadius(s) == FloatInt(s, 4)
HeaderHeight(cal_height) == FloatInt(cal_height, 20)
DotSize(cal_width) == FloatInt(cal_width, 8)
DotSpacing(cal_width) == cal_width \div 4
StartXOffset(dot_spacing) == FloatInt(dot_spacing, 70)
StartYOffset(cal_height) == FloatInt(cal_height, 40)

NoLoc ==
  [ safe_zone |-> 0, content_size |-> 0, content_x |-> 0, content_y |-> 0,
    padding |-> 0, cal_width |-> 0, cal_height |-> 0, cal_x |-> 0, cal_y |-> 0,
    cal_radius |-> 0, header_height |-> 0, dot_size |-> 0, dot_spacing |-> 0,
    start_x |-> 0, start_y |-> 0 ]

\* lines 49-60: the safe zone and the calendar rectangle
Layout(s) ==
  LET safe_zone == SafeZone(s)
      content_size == ContentSize(s, safe_zone)
      content_x == safe_zone
      content_y == safe_zone
      padding == Padding(content_size)
      cal_width == CalWidth(content_size, padding)
      cal_height == CalHeight(cal_width)
  IN  [ NoLoc EXCEPT
          !.safe_zone = safe_zone, !.content_size = content_size,
          !.content_x = content_x, !.content_y = content_y,
          !.padding = padding, !.cal_width = cal_width,
          !.cal_height = cal_height,
          !.cal_x = content_x + padding,
          !.cal_y = content_y + CalYOffset(content_size),
          !.cal_radius = CalRadius(s) ]

\* ------------------------------------------------------------------ shapes
RoundedRect(x0, y0, x1, y1, radius, fill) ==
  [ kind |-> "rounded_rectangle", x0 |-> x0, y0 |-> y0, x1 |-> x1, y1 |-> y1,
    radius |-> radius, fill |-> fill ]

Ellipse(x0, y0, x1, y1, fill) ==
  [ kind |-> "ellipse", x0 |-> x0, y0 |-> y0, x1 |-> x1, y1 |-> y1,
    radius |-> 0, fill |-> fill ]

Clamp(v, lo, hi) == IF v < lo THEN lo ELSE IF v > hi THEN hi ELSE v

\* Corner diameter ImageDraw.rounded_rectangle uses: 2*radius, cut down to
\* the box's width or height when opposite corners would meet.
CornerDiameter(sh) ==
  LET d0 == sh.radius * 2
      d1 == IF d0 >= sh.x1 - sh.x0 - 1 THEN sh.x1 - sh.x0 ELSE d0
  IN  IF d1 >= sh.y1 - sh.y0 - 1 THEN sh.y1 - sh.y0 ELSE d1

\* Whether pixel (px, py) is filled by the shape: inside the bounding box and,
\* next to a corner, inside the corner's arc.  Coordinates are doubled so
\* that the centres of odd-diameter arcs stay integral.  The arcs are the
\* geometric ones; Pillow's rasteriser may differ from them by the pixels that
\* touch an arc, and by none that are farther from it.
Covers(sh, px, py) ==
  /\ sh.x0 <= px /\ px <= sh.x1
  /\ sh.y0 <= py /\ py <= sh.y1
  /\ IF sh.kind = "ellipse"
     THEN LET w == sh.x1 - sh.x0
              h == sh.y1 - sh.y0
              dx == 2 * px - (sh.x0 + sh.x1)
              dy == 2 * py - (sh.y0 + sh.y1)
          IN  dx * dx * h * h + dy * dy * w * w <= w * w * h * h
     ELSE LET d == CornerDiameter(sh)
              cx == Clamp(2 * px, 2 * sh.x0 + d, 2 * sh.x1 - d)
              cy == Clamp(2 * py, 2 * sh.y0 + d, 2 * sh.y1 - d)
              dx == 2 * px - cx
              dy == 2 * py - cy
          IN  dx * dx + dy * dy <= d * d

\* create_rounded_rectangle_mask(size, radius): the 'L' buffer, 255 inside
\* the rounded rectangle from (0,0) to (size-1,size-1) and 0 outside.
create_rounded_rectangle_mask(s, radius) ==
  RoundedRect(0, 0, s - 1, s - 1, radius, 255)

NoMask == RoundedRect(0, 0, 0, 0, 0, 0)

MaskAt(m, px, py) == IF Covers(m, px, py) THEN m.fill ELSE 0

\* The raster an Image holds: its mode and size, the gradient rows pasted
\* through the mask onto white, and the shapes drawn on top, oldest first.
Image(s, rws, m, shps) ==
  [ mode |-> "RGB", width |-> s, height |-> s, rows |-> rws, mask |-> m,
    shapes |-> shps ]

RECURSIVE TopShape(_, _, _, _)
\* Index of the last of the first n shapes that fills (px, py); 0 if none.
TopShape(shps, n, px, py) ==
  IF n = 0 THEN 0
  ELSE IF Covers(shps[n], px, py) THEN n
  ELSE TopShape(shps, n - 1, px, py)

\* rounded_img.paste(img, (0, 0), mask): the gradient where the mask is 255,
\* the white canvas where it is 0; then whatever was drawn over it.
PixelOf(im, px, py) ==
  LET t == TopShape(im.shapes, Len(im.shapes), px, py)
  IN  IF t > 0 THEN im.shapes[t].fill
      ELSE IF MaskAt(im.mask, px, py) = 255 THEN im.rows[py + 1]
      ELSE White

\* ---------------------------------------------------------------- messages
Msg(text) == [ text |-> text, n |-> 0, e |-> "" ]
MsgSize(text, s) == [ text |-> text, n |-> s, e |-> "" ]
MsgErr(text, e) == [ text |-> text, n |-> 0, e |-> e ]

NoPil == Msg("PIL/Pillow not available.")
OpenHtml ==
  Msg("Please open generate-pwa-icons.html in your browser to generate icons manually.")
Banner == Msg("Generating PWA icons for AuraFlow...")
Generating(s) == MsgSize("Generating {size}x{size} icon...", s)
Created(s) == MsgSize("Created {filename}", s)
AllDone == Msg("All PWA icons generated successfully!")
SafeZoneNote ==
  Msg("Icons meet PWA maskable requirements with 20% safe zone padding.")
ErrorGenerating(e) == MsgErr("Error generating icons: {e}", e)
Fallback ==
  Msg("Fallback: Please open generate-pwa-icons.html in your browser to generate icons manually.")

\* The lines that start with the check mark U+2713 (lines 117 and 125); every
\* other line printed is ASCII.
CheckMarked == { Created(s) : s \in {Size192, Size512} } \cup { AllDone }

\* Whether print(m) succeeds: stdoutEncodes says whether the encoding of
\* sys.stdout has the check mark (UTF-8 has; ascii, cp1252, latin-1 have not,
\* and print then raises UnicodeEncodeError before writing anything).
CanPrint(m) == stdoutEncodes \/ m \notin CheckMarked

NoImage == Image(0, <<>>, NoMask, <<>>)

\* A file of the working directory: absent, left by an earlier run ("old"),
\* written whole by img.save ("written", with the raster it encodes), or
\* left partly written by a save that raised ("partial").
File(status, im) == [ status |-> status, image |-> im ]

\* What the working directory can hold before the run.
OldFiles == [ FileNames -> { File("absent", NoImage), File("old", NoImage) } ]

\* Messages of the exceptions the drawing library can raise.
DrawErrors == {"MemoryError"}
SaveErrors == {"PermissionError"}

\* The exception print raises on a stdout that cannot encode the line.
EncodeError == "UnicodeEncodeError"

DrawPcs ==
  {"gradient", "layout", "body", "header", "dots", "dots1", "dots2", "dots3"}

\* -------------------------------------------------------------------- Init
Init ==
  /\ stdoutEncodes \in BOOLEAN
  /\ pc = "import"
  /\ pil = "unknown"
  /\ idx = 1
  /\ size = 0
  /\ y = 0
  /\ i = 0
  /\ rows = <<>>
  /\ mask = NoMask
  /\ loc = NoLoc
  /\ shapes = <<>>
  /\ files \in OldFiles
  /\ out = <<>>
  /\ exc = ""
  /\ exitCode = -1      \* the process has not exited

\* draw_calendar_icon(size) entered with any size of 1..MaxSize
InitDraw ==
  /\ stdoutEncodes = TRUE
  /\ pc = "gradient"
  /\ pil = "loaded"
  /\ idx = 1
  /\ size \in 1..MaxSize
  /\ y = 0
  /\ i = 0
  /\ rows = <<>>
  /\ mask = NoMask
  /\ loc = NoLoc
  /\ shapes = <<>>
  /\ files = [ f \in FileNames |-> File("absent", NoImage) ]
  /\ out = <<>>
  /\ exc = ""
  /\ exitCode = -1

\* ------------------------------------------------------------ import guard
ImportOk ==
  /\ pc = "import"
  /\ pil' = "loaded"
  /\ pc' = "main"
  /\ UNCHANGED <<stdoutEncodes, idx, size, y, i, rows, mask, loc, shapes, files, out, exc, exitCode>>

\* Mutant: the guard prints but does not exit.
ImportFailFallThrough ==
  /\ pc = "import"
  /\ pil' = "missing"
  /\ out' = out \o <<NoPil, OpenHtml>>
  /\ pc' = "main"
  /\ UNCHANGED <<stdoutEncodes, idx, size, y, i, rows, mask, loc, shapes, files, exc, exitCode>>

\* except ImportError: two prints and sys.exit(0)
ImportFail ==
  /\ pc = "import"
  /\ pil' = "missing"
  /\ out' = out \o <<NoPil, OpenHtml>>
  /\ exitCode' = 0
  /\ pc' = "exited"
  /\ UNCHANGED <<stdoutEncodes, idx, size, y, i, rows, mask, loc, shapes, files, exc>>

\* ---------------------------------------------------------------- __main__
MainStart ==
  /\ pc = "main"
  /\ out' = Append(out, Banner)
  /\ idx' = 1
  /\ pc' = "try"
  /\ UNCHANGED <<stdoutEncodes, pil, size, y, i, rows, mask, loc, shapes, files, exc, exitCode>>

\* generate_icon(size) is entered: the print, then Image.new('RGB', ...)
GenerateIcon ==
  /\ pc = "try"
  /\ idx <= Len(Sizes)
  /\ size' = Sizes[idx]
  /\ out' = Append(out, Generating(Sizes[idx]))
  /\ y' = 0
  /\ i' = 0
  /\ rows' = <<>>
  /\ mask' = NoMask
  /\ loc' = NoLoc
  /\ shapes' = <<>>
  /\ pc' = "gradient"
  /\ UNCHANGED <<stdoutEncodes, pil, idx, files, exc, exitCode>>

\* ------------------------------------------------------ draw_calendar_icon
\* one pass of "for y in range(size)": draw.line([(0, y), (size, y)], fill)
GradientRow ==
  /\ pc = "gradient"
  /\ y < size
  /\ rows' = Append(rows, GradientColor(y, size))
  /\ y' = y + 1
  /\ UNCHANGED <<stdoutEncodes, pc, pil, idx, size, i, mask, loc, shapes, files, out, exc, exitCode>>

\* lines 39-46: the mask, the white canvas and the paste
ApplyMask ==
  /\ pc = "gradient"
  /\ y = size
  /\ mask' = create_rounded_rectangle_mask(size, BgRadius(size))
  /\ shapes' = <<>>
  /\ pc' = "layout"
  /\ UNCHANGED <<stdoutEncodes, pil, idx, size, y, i, rows, loc, files, out, exc, exitCode>>

ComputeLayout ==
  /\ pc = "layout"
  /\ loc' = Layout(size)
  /\ pc' = "body"
  /\ UNCHANGED <<stdoutEncodes, pil, idx, size, y, i, rows, mask, shapes, files, out, exc, exitCode>>

DrawBody ==
  /\ pc = "body"
  /\ shapes' = Append(shapes,
       RoundedRect(loc.cal_x, loc.cal_y, loc.cal_x + loc.cal_width,
                   loc.cal_y + loc.cal_height, loc.cal_radius, BodyFill))
  /\ pc' = "header"
  /\ UNCHANGED <<stdoutEncodes, pil, idx, size, y, i, rows, mask, loc, files, out, exc, exitCode>>

DrawHeader ==
  /\ pc = "header"
  /\ LET header_height == HeaderHeight(loc.cal_height) IN
       /\ loc' = [ loc EXCEPT !.header_height = header_height ]
       /\ shapes' = Append(shapes,
            RoundedRect(loc.cal_x, loc.cal_y, loc.cal_x + loc.cal_width,
                        loc.cal_y + header_height, loc.cal_radius, White))
  /\ pc' = "dots"
  /\ UNCHANGED <<stdoutEncodes, pil, idx, size, y, i, rows, mask, files, out, exc, exitCode>>

\* lines 78-81
DotsSetup ==
  /\ pc = "dots"
  /\ LET dot_spacing == DotSpacing(loc.cal_width) IN
       loc' = [ loc EXCEPT
                  !.dot_size = DotSize(loc.cal_width),
                  !.dot_spacing = dot_spacing,
                  !.start_x = loc.cal_x + StartXOffset(dot_spacing),
                  !.start_y = loc.cal_y + StartYOffset(loc.cal_height) ]
  /\ i' = 0
  /\ pc' = "dots1"
  /\ UNCHANGED <<stdoutEncodes, pil, idx, size, y, rows, mask, shapes, files, out, exc, exitCode>>

\* The dot of column ii in the row r (0, 1, 2) of the grid.
Dot(l, r, ii, fill) ==
  LET x == l.start_x + (ii * l.dot_spacing)
      yy == l.start_y + (l.dot_spacing * r)
  IN  Ellipse(x - l.dot_size, yy - l.dot_size, x + l.dot_size, yy + l.dot_size, fill)

\* Number of dots in each of the three rows: range(3), range(3), range(2).
DotsInRow == <<3, 3, 2>>

\* one pass of the first loop; the loop is left after its last pass
DotRow1 ==
  /\ pc = "dots1"
  /\ i < DotsInRow[1]
  /\ shapes' = Append(shapes, Dot(loc, 0, i, ColorA))
  /\ IF i + 1 < DotsInRow[1] THEN i' = i + 1 /\ pc' = pc
                             ELSE i' = 0 /\ pc' = "dots2"
  /\ UNCHANGED <<stdoutEncodes, pil, idx, size, y, rows, mask, loc, files, out, exc, exitCode>>

DotRow2 ==
  /\ pc = "dots2"
  /\ i < DotsInRow[2]
  /\ shapes' = Append(shapes, Dot(loc, 1, i, ColorB))
  /\ IF i + 1 < DotsInRow[2] THEN i' = i + 1 /\ pc' = pc
                             ELSE i' = 0 /\ pc' = "dots3"
  /\ UNCHANGED <<stdoutEncodes, pil, idx, size, y, rows, mask, loc, files, out, exc, exitCode>>

\* the third loop, and "return img" after its last pass
DotRow3 ==
  /\ pc = "dots3"
  /\ i < DotsInRow[3]
  /\ shapes' = Append(shapes, Dot(loc, 2, i, ColorA))
  /\ IF i + 1 < DotsInRow[3] THEN i' = i + 1 /\ pc' = pc
                             ELSE i' = 0 /\ pc' = "return"
  /\ UNCHANGED <<stdoutEncodes, pil, idx, size, y, rows, mask, loc, files, out, exc, exitCode>>

\* An exception raised by the drawing library inside draw_calendar_icon.
RaiseInDraw ==
  /\ pc \in DrawPcs
  /\ \E e \in DrawErrors : exc' = e
  /\ pc' = "except"
  /\ UNCHANGED <<stdoutEncodes, pil, idx, size, y, i, rows, mask, loc, shapes, files, out, exitCode>>

\* ----------------------------------------------------------- generate_icon
\* img.save(filename, 'PNG') succeeds: the file holds the raster
Save ==
  /\ pc = "return"
  /\ files' = [ files EXCEPT ![FileName(size)] = File("written", Image(size, rows, mask, shapes)) ]
  /\ pc' = "created"
  /\ UNCHANGED <<stdoutEncodes, pil, idx, size, y, i, rows, mask, loc, shapes, out, exc, exitCode>>

\* line 117: the print succeeds and generate_icon returns to the try block
PrintCreated ==
  /\ pc = "created"
  /\ CanPrint(Created(size))
  /\ out' = Append(out, Created(size))
  /\ idx' = idx + 1
  /\ pc' = "try"
  /\ UNCHANGED <<stdoutEncodes, pil, size, y, i, rows, mask, loc, shapes, files, exc, exitCode>>

\* line 117: the print raises after the file was written
PrintCreatedFail ==
  /\ pc = "created"
  /\ ~CanPrint(Created(size))
  /\ exc' = EncodeError
  /\ pc' = "except"
  /\ UNCHANGED <<stdoutEncodes, pil, idx, size, y, i, rows, mask, loc, shapes, files, out, exitCode>>

\* img.save raises: the file was not opened, or is left partly written.
SaveFail ==
  /\ pc = "return"
  /\ \E e \in SaveErrors : exc' = e
  /\ \/ files' = files
     \/ files' = [ files EXCEPT ![FileName(size)] = File("partial", NoImage) ]
  /\ pc' = "except"
  /\ UNCHANGED <<stdoutEncodes, pil, idx, size, y, i, rows, mask, loc, shapes, out, exitCode>>

\* lines 125-126, then the script ends: exit status 0.  The print of line 125
\* raises on a stdout without the check mark (a case line 117 has met first).
MainSuccess ==
  /\ pc = "try"
  /\ idx > Len(Sizes)
  /\ IF CanPrint(AllDone)
     THEN /\ out' = out \o <<AllDone, SafeZoneNote>>
          /\ exitCode' = 0
          /\ pc' = "exited"
          /\ exc' = exc
     ELSE /\ exc' = EncodeError
          /\ pc' = "except"
          /\ UNCHANGED <<out, exitCode>>
  /\ UNCHANGED <<stdoutEncodes, pil, idx, size, y, i, rows, mask, loc, shapes, files>>

\* Mutant: the handler exits with the status of the import guard.
ExceptHandlerExit0 ==
  /\ pc = "except"
  /\ out' = out \o <<ErrorGenerating(exc), Fallback>>
  /\ exitCode' = 0
  /\ pc' = "exited"
  /\ UNCHANGED <<stdoutEncodes, pil, idx, size, y, i, rows, mask, loc, shapes, files, exc>>

\* except Exception as e: two prints and sys.exit(1)
ExceptHandler ==
  /\ pc = "except"
  /\ out' = out \o <<ErrorGenerating(exc), Fallback>>
  /\ exitCode' = 1
  /\ pc' = "exited"
  /\ UNCHANGED <<stdoutEncodes, pil, idx, size, y, i, rows, mask, loc, shapes, files, exc>>

\* ---------------------------------------------------------- specifications
Next ==
  \/ ImportOk
  \/ ImportFail
  \/ MainStart
  \/ GenerateIcon
  \/ GradientRow
  \/ ApplyMask
  \/ ComputeLayout
  \/ DrawBody
  \/ DrawHeader
  \/ DotsSetup
  \/ DotRow1
  \/ DotRow2
  \/ DotRow3
  \/ RaiseInDraw
  \/ Save
  \/ SaveFail
  \/ PrintCreated
  \/ PrintCreatedFail
  \/ MainSuccess
  \/ ExceptHandler

Spec == Init /\ [][Next]_vars

NextDraw ==
  \/ GradientRow
  \/ ApplyMask
  \/ ComputeLayout
  \/ DrawBody
  \/ DrawHeader
  \/ DotsSetup
  \/ DotRow1
  \/ DotRow2
  \/ DotRow3

SpecDraw == InitDraw /\ [][NextDraw]_vars

\* ------------------------------------------------------------ verification
Printed(m) == \E k \in 1..Len(out) : out[k] = m

Drawn == {"layout", "body", "header", "dots", "dots1", "dots2", "dots3", "return"}

LaidOut == Drawn \ {"layout"}

\* C1: once PIL has loaded, the process exits 0 exactly when generate_icon(192)
\* and generate_icon(512) both ran to their end, and exits 1 whenever an
\* exception was raised; in that case the error and the fallback guidance are
\* the last things printed and the success summary is not printed.
C1_ExitStatus ==
  (pil = "loaded" /\ pc = "exited") =>
    /\ exitCode \in {0, 1}
    /\ (exitCode = 0) <=> (Printed(Created(Size192)) /\ Printed(Created(Size512)))
    /\ (exitCode = 1) <=> (exc # "")
    /\ (exitCode = 1) =>
         /\ Len(out) >= 2
         /\ out[Len(out) - 1] = ErrorGenerating(exc)
         /\ out[Len(out)] = Fallback
         /\ ~Printed(AllDone)
         /\ ~Printed(SafeZoneNote)

C1_Witness ==
  /\ pil = "loaded" /\ pc = "exited" /\ exitCode = 1
  /\ Printed(Created(Size192)) /\ Printed(Generating(Size512))

\* C2: when PIL cannot be imported the program prints the two fallback lines
\* and exits 0; generate_icon is never entered and no file is created or
\* rewritten.
C2_ImportFailure ==
  (pil = "missing") =>
    /\ pc = "exited"
    /\ exitCode = 0
    /\ out = <<NoPil, OpenHtml>>
    /\ \A s \in {Size192, Size512} : ~Printed(Generating(s))
    /\ \A f \in FileNames : files[f] \in { File("absent", NoImage), File("old", NoImage) }

C2_Witness == pil = "missing" /\ exitCode = 0 /\ Len(out) = 2

InSafeZone(sh, s) ==
  /\ 5 * sh.x0 >= s /\ 5 * sh.x1 <= 4 * s
  /\ 5 * sh.y0 >= s /\ 5 * sh.y1 <= 4 * s

\* C3: for 192 and 512, the body, the header and the bounding box of each of
\* the eight dots have every coordinate within [0.2*size, 0.8*size].
C3_SafeZone ==
  /\ \A k \in 1..Len(shapes) : InSafeZone(shapes[k], size)
  /\ (pc = "return") =>
        /\ Len(shapes) = 10
        /\ shapes[1].kind = "rounded_rectangle" /\ shapes[2].kind = "rounded_rectangle"
        /\ \A k \in 3..10 : shapes[k].kind = "ellipse"

C3_Witness == pc = "return" /\ size = Size512 /\ Len(shapes) = 10

\* The value v is the truncation of the blend of a and b at ratio yy/s.
IsBlend(v, a, b, yy, s) ==
  /\ s * v <= a * s + (b - a) * yy
  /\ a * s + (b - a) * yy < s * (v + 1)

\* C4: once generate_icon(192) is past img.save, icon-192.png holds a 192x192
\* RGB raster whose pixel (96, 10) is the row-10 gradient blend (inside the
\* rounded background, under no shape) and whose pixel at the centre of the
\* header band is pure white, the header being the topmost shape there.
C4_Icon192 ==
  (Printed(Created(Size192)) \/ (pc = "created" /\ size = Size192)) =>
    LET f == files["icon-192.png"]
        im == f.image
        hd == im.shapes[2]
        hx == (hd.x0 + hd.x1) \div 2
        hy == (hd.y0 + hd.y1) \div 2
        p == PixelOf(im, 96, 10)
    IN  /\ f.status = "written"
        /\ im.mode = "RGB" /\ im.width = 192 /\ im.height = 192
        /\ MaskAt(im.mask, 96, 10) = 255
        /\ TopShape(im.shapes, Len(im.shapes), 96, 10) = 0
        /\ \A c \in 1..3 : IsBlend(p[c], ColorA[c], ColorB[c], 10, 192)
        /\ hd.fill = White
        /\ TopShape(im.shapes, Len(im.shapes), hx, hy) = 2
        /\ PixelOf(im, hx, hy) = <<255, 255, 255>>

C4_Witness ==
  /\ pc = "created" /\ size = Size192
  /\ files["icon-192.png"].status = "written"
  /\ PixelOf(files["icon-192.png"].image, 96, 10) = <<102, 108, 230>>

\* C5: every gradient row y is the channel-wise truncated blend of A and B at
\* ratio y/size; row 0 is A; going down, red never decreases, green and blue
\* never increase, and every channel stays between A's and B's value.
C5_Gradient ==
  /\ (pc \in Drawn) => Len(rows) = size
  /\ Len(rows) >= 1 => rows[1] = <<102, 110, 234>>
  /\ \A k \in 1..Len(rows) :
       /\ \A c \in 1..3 : IsBlend(rows[k][c], ColorA[c], ColorB[c], k - 1, size)
       /\ 102 <= rows[k][1] /\ rows[k][1] <= 118
       /\ 75 <= rows[k][2] /\ rows[k][2] <= 110
       /\ 162 <= rows[k][3] /\ rows[k][3] <= 234
       /\ k > 1 =>
            /\ rows[k][1] >= rows[k - 1][1]
            /\ rows[k][2] <= rows[k - 1][2]
            /\ rows[k][3] <= rows[k - 1][3]

C5_Witness ==
  /\ pc = "layout" /\ size > 100 /\ Len(rows) = size
  /\ rows[size][1] > rows[1][1] /\ rows[size][2] < rows[1][2] /\ rows[size][3] < rows[1][3]

\* C6: for 192 and 512 the four corner pixels of the finished image lie
\* outside the mask and are white, and the centre pixel lies inside the mask.
C6_Corners ==
  (pc = "return") =>
    LET im == Image(size, rows, mask, shapes)
        corners == { <<0, 0>>, <<size - 1, 0>>, <<0, size - 1>>, <<size - 1, size - 1>> }
    IN  /\ \A q \in corners :
             /\ MaskAt(mask, q[1], q[2]) = 0
             /\ PixelOf(im, q[1], q[2]) = <<255, 255, 255>>
        /\ MaskAt(mask, size \div 2, size \div 2) = 255

C6_Witness == pc = "return" /\ size = Size192 /\ MaskAt(mask, 96, 96) = 255

\* C7 as stated: the content box is centred, starts at 0.2*size and has side
\* 0.6*size, for every positive size.
C7_Original ==
  (pc \in LaidOut) =>
    /\ loc.content_x = loc.content_y
    /\ size - (loc.content_x + loc.content_size) = loc.content_x
    /\ 5 * loc.content_x = size
    /\ 5 * loc.content_size = 3 * size

\* C7 amended: the content box is centred with the same margin safe_zone on all
\* four sides, safe_zone is 0.2*size truncated to an integer, and the side is
\* size - 2*safe_zone: at least 0.6*size, less than 0.6*size + 2, and exactly
\* 0.6*size when size is a multiple of 5.
C7_ContentBox ==
  (pc \in LaidOut) =>
    /\ loc.content_x = loc.safe_zone /\ loc.content_y = loc.safe_zone
    /\ size - (loc.content_x + loc.content_size) = loc.content_x
    /\ size - (loc.content_y + loc.content_size) = loc.content_y
    /\ 5 * loc.safe_zone <= size /\ size < 5 * (loc.safe_zone + 1)
    /\ 5 * loc.content_size >= 3 * size
    /\ 5 * loc.content_size < 3 * size + 10
    /\ (size % 5 = 0) <=> (5 * loc.content_size = 3 * size)

C7_Witness == pc = "body" /\ size = 192 /\ loc.safe_zone = 38 /\ loc.content_size = 116

\* C8 as stated: the mask is the rounded rectangle (0,0)-(size-1,size-1) whose
\* radius is 0.15*size rounded to the nearest integer.
C8_Original ==
  (pc \in Drawn) =>
    /\ mask.x0 = 0 /\ mask.y0 = 0 /\ mask.x1 = size - 1 /\ mask.y1 = size - 1
    /\ 100 * mask.radius - 15 * size <= 50
    /\ 15 * size - 100 * mask.radius <= 50

\* C8 amended: the mask is the rounded rectangle (0,0)-(size-1,size-1) whose
\* radius is 0.15*size truncated to an integer (rounded down, not to nearest).
C8_MaskRadius ==
  (pc \in Drawn) =>
    /\ mask.kind = "rounded_rectangle" /\ mask.fill = 255
    /\ mask.x0 = 0 /\ mask.y0 = 0 /\ mask.x1 = size - 1 /\ mask.y1 = size - 1
    /\ 100 * mask.radius <= 15 * size
    /\ 15 * size < 100 * (mask.radius + 1)

C8_Witness == pc = "layout" /\ size = 192 /\ mask.radius = 28

Touched(f) == files[f].status \in {"written", "partial"}

Count(m) == Cardinality({ k \in 1..Len(out) : out[k] = m })

\* C9: the icons are generated in order, 192 then 512, each at most once:
\* icon-512.png is touched only after icon-192.png was written whole; if
\* generate_icon(192) raises, generate_icon(512) is never entered; if
\* generate_icon(512) raises, icon-192.png stays as written and the exit
\* status is 1.
C9_Sequential ==
  /\ \A s \in {Size192, Size512} : Count(Generating(s)) <= 1
  /\ Printed(Generating(Size512)) => Printed(Created(Size192))
  /\ Touched("icon-512.png") =>
       /\ files["icon-192.png"].status = "written"
       /\ Printed(Generating(Size512))
  /\ (exc # "" /\ ~Printed(Created(Size192))) => ~Printed(Generating(Size512))
  /\ (exc # "" /\ Printed(Generating(Size512))) =>
       /\ files["icon-192.png"].status = "written"
       /\ files["icon-192.png"].image.width = Size192
       /\ Len(files["icon-192.png"].image.shapes) = 10
       /\ (pc = "exited" => exitCode = 1)

C9_Witness ==
  /\ pc = "exited" /\ exitCode = 1
  /\ Printed(Generating(Size512))
  /\ files["icon-192.png"].status = "written"
  /\ files["icon-512.png"].status = "partial"

Inside(sh, box) ==
  /\ box.x0 <= sh.x0 /\ sh.x1 <= box.x1
  /\ box.y0 <= sh.y0 /\ sh.y1 <= box.y1

\* C10 as stated: each of the eight dots lies entirely inside the calendar
\* body rectangle.
C10_Original ==
  \A k \in 3..Len(shapes) : Inside(shapes[k], shapes[1])

\* C10 amended: each of the eight dots lies between the left and right edges
\* of the body and below the header band; the six dots of rows 1 and 2 lie
\* entirely inside the body; the two dots of row 3 have their centre inside
\* the body but reach below its bottom edge, by less than dot_size.
C10_Dots ==
  /\ \A k \in 3..Len(shapes) :
       /\ shapes[k].kind = "ellipse"
       /\ shapes[1].x0 <= shapes[k].x0 /\ shapes[k].x1 <= shapes[1].x1
       /\ shapes[2].y1 < shapes[k].y0
       /\ shapes[k].x1 - shapes[k].x0 = 2 * loc.dot_size
       /\ shapes[k].y1 - shapes[k].y0 = 2 * loc.dot_size
  /\ \A k \in 3..8 : k <= Len(shapes) => Inside(shapes[k], shapes[1])
  /\ \A k \in 9..10 : k <= Len(shapes) =>
       /\ shapes[k].y1 - loc.dot_size <= shapes[1].y1
       /\ shapes[k].y1 > shapes[1].y1
       /\ shapes[k].y1 - shapes[1].y1 < loc.dot_size

C10_Witness ==
  /\ pc = "return" /\ size = Size192 /\ Len(shapes) = 10
  /\ shapes[10].y1 = 119 /\ shapes[1].y1 = 118

====
